---------------------------- MODULE Spec2Model ----------------------------
(***************************************************************************)
(* Smart Document Reader (src/script.js, class SmartDocumentReader).       *)
(*                                                                         *)
(* A text is a sequence of one-character strings.  The texts considered    *)
(* contain no markdown marker ('#', '*') and no HTML-special character     *)
(* ('<', '&'), so that the markdown-to-HTML step of processDocument only   *)
(* splits the text into paragraphs (at blank lines) and lines (at '\n'),   *)
(* and every line of a paragraph becomes one DOM text node.                *)
(***************************************************************************)
EXTENDS Integers, Sequences, FiniteSets

(***************************************************************************)
(* Characters and strings                                                  *)
(***************************************************************************)
NL == "\n"

\* JavaScript whitespace (String.prototype.trim, \s) within the alphabet used
IsSpace(c) == c \in {" ", NL}

\* the character class [\.!?] of the sentence regex
IsTerminal(c) == c \in {".", "!", "?"}

IsBlank(s) == \A i \in 1..Len(s) : IsSpace(s[i])

\* String.prototype.trim
trim(s) ==
    IF IsBlank(s) THEN <<>>
    ELSE LET a == CHOOSE i \in 1..Len(s) :
                    ~IsSpace(s[i]) /\ \A j \in 1..(i-1) : IsSpace(s[j])
             b == CHOOSE i \in 1..Len(s) :
                    ~IsSpace(s[i]) /\ \A j \in (i+1)..Len(s) : IsSpace(s[j])
         IN  SubSeq(s, a, b)

RECURSIVE ConcatAll(_)
ConcatAll(ss) == IF ss = <<>> THEN <<>> ELSE Head(ss) \o ConcatAll(Tail(ss))

\* Array.prototype.map(s => s.trim())
MapTrim(ss) == [i \in 1..Len(ss) |-> trim(ss[i])]

NonEmpty(s) == Len(s) > 0

\* String.prototype.split(sep) for a separator of one or two characters,
\* scanning left to right without overlap
RECURSIVE split(_, _)
split(s, sep) ==
    LET k == Len(sep)
        At(i) == \A d \in 1..k : s[i + d - 1] = sep[d]
    IN  IF \A i \in 1..(Len(s) - k + 1) : ~At(i) THEN <<s>>
        ELSE LET i == CHOOSE i \in 1..(Len(s) - k + 1) :
                          At(i) /\ \A j \in 1..(i-1) : ~At(j)
             IN  <<SubSeq(s, 1, i - 1)>> \o split(SubSeq(s, i + k, Len(s)), sep)

(***************************************************************************)
(* Sentence segmentation                                                   *)
(***************************************************************************)
\* text.match(/[^\.!?]+[\.!?]+/g) from position `from` on: a match starts at
\* the first non-terminal character, runs over the non-terminal characters
\* and then over the following run of terminal characters; a run of
\* non-terminal characters that reaches the end of the text matches nothing.
RECURSIVE matchSentences(_, _)
matchSentences(s, from) ==
    LET n == Len(s) IN
    IF \A i \in from..n : IsTerminal(s[i]) THEN <<>>
    ELSE LET b == CHOOSE i \in from..n :
                    ~IsTerminal(s[i]) /\ \A j \in from..(i-1) : IsTerminal(s[j])
         IN  IF \A i \in b..n : ~IsTerminal(s[i]) THEN <<>>
             ELSE LET e == CHOOSE i \in b..n :
                             IsTerminal(s[i]) /\ \A j \in b..(i-1) : ~IsTerminal(s[j])
                      t == IF \A i \in e..n : IsTerminal(s[i]) THEN n + 1
                           ELSE CHOOSE i \in e..n :
                                  ~IsTerminal(s[i]) /\ \A j \in e..(i-1) : IsTerminal(s[j])
                  IN  <<SubSeq(s, b, t - 1)>> \o matchSentences(s, t)

\* text.match(/[^\.!?]+[\.!?]+/g) || [text]
matchOrWhole(text) ==
    LET m == matchSentences(text, 1) IN IF m = <<>> THEN <<text>> ELSE m

\* extractSentencesFromTextNode without the trim and the filter of the matches
extractSentencesFromTextNodeRaw(node) == matchOrWhole(trim(node))

\* extractSentencesFromElement, the branch of one text node
extractSentencesFromTextNode(node) ==
    LET text == trim(node)
    IN  IF text = <<>> THEN <<>>
        ELSE SelectSeq(MapTrim(matchOrWhole(text)), NonEmpty)

\* extractSentencesFromElement over the text nodes of the parsed document,
\* in document order
extractSentencesFromElement(nodes) ==
    ConcatAll([i \in 1..Len(nodes) |-> extractSentencesFromTextNode(nodes[i])])

(***************************************************************************)
(* processDocument: paragraphs, lines, text nodes                          *)
(***************************************************************************)
\* text.split('\n\n').map(trim).filter(length > 0)
formatParagraphs(text) == SelectSeq(MapTrim(split(text, <<NL, NL>>)), NonEmpty)

\* the text nodes of <p>line<br>line...</p>: the lines of the paragraph (an
\* empty line gives no text node)
paragraphTextNodes(p) == SelectSeq(split(p, <<NL>>), NonEmpty)

\* the text nodes of the formatted document, in document order (the "\n"
\* joining two blocks is a blank text node, skipped by every consumer)
documentTextNodes(text) ==
    LET ps == formatParagraphs(text)
    IN  ConcatAll([i \in 1..Len(ps) |-> paragraphTextNodes(ps[i])])

\* processDocument: the sentences of a raw text
documentSentences(text) == extractSentencesFromElement(documentTextNodes(text))

(***************************************************************************)
(* Accessibility analysis                                                  *)
(***************************************************************************)
ComplexityLimit == 20
StructureLimit == 10
DensityLimit == 500
HighPenalty == 15
MediumPenalty == 8
LowPenalty == 3
FullScore == 100
HighRiskBelow == 70
MediumRiskBelow == 85

RECURSIVE SumSeq(_)
SumSeq(ns) == IF ns = <<>> THEN 0 ELSE Head(ns) + SumSeq(Tail(ns))

\* s.split(' ').length
wordCount(s) == 1 + Cardinality({i \in 1..Len(s) : s[i] = " "})

\* JavaScript a / b > c for integers a, b, c >= 0: x / 0 is Infinity for
\* x > 0 and NaN for x = 0, and NaN > c is false
QuotientExceeds(a, b, c) == IF b = 0 THEN a > 0 ELSE a > c * b

StartsWithAt(s, i, w) ==
    /\ i + Len(w) - 1 <= Len(s)
    /\ \A k \in 1..Len(w) : s[i + k - 1] = w[k]

HeadingMarkers ==
    { <<"#">>, <<"C", "h", "a", "p", "t", "e", "r">>,
      <<"S", "e", "c", "t", "i", "o", "n">>, <<"P", "a", "r", "t">> }

\* /^(#|Chapter|Section|Part)/m.test(text)
hasHeadings(text) ==
    \E i \in 1..Len(text) :
        /\ i = 1 \/ text[i - 1] = NL
        /\ \E w \in HeadingMarkers : StartsWithAt(text, i, w)

\* text.split('\n\n').filter(p => p.trim().length > 0).length
paragraphCount(text) ==
    Len(SelectSeq(split(text, <<NL, NL>>), LAMBDA p : ~IsBlank(p)))

Issue(type, severity) == [type |-> type, severity |-> severity]

complexityIssue(sents) ==
    IF QuotientExceeds(SumSeq([i \in 1..Len(sents) |-> wordCount(sents[i])]),
                       Len(sents), ComplexityLimit)
    THEN <<Issue("Sentence Complexity", "high")>> ELSE <<>>

structureIssue(text, sents) ==
    IF ~hasHeadings(text) /\ Len(sents) > StructureLimit
    THEN <<Issue("Document Structure", "medium")>> ELSE <<>>

densityIssue(text) ==
    IF QuotientExceeds(Len(text), paragraphCount(text), DensityLimit)
    THEN <<Issue("Text Density", "medium")>> ELSE <<>>

\* analyzeIssues without the reset of this.accessibilityIssues at the start
\* of a run
analyzeIssuesAppending(prev, text, sents) ==
    prev \o complexityIssue(sents) \o structureIssue(text, sents)
         \o densityIssue(text)

\* analyzeAccessibility: the issue list, started afresh (prev is the list of
\* the run before, which the code discards)
analyzeIssues(prev, text, sents) ==
    complexityIssue(sents) \o structureIssue(text, sents) \o densityIssue(text)

penalty(severity) ==
    IF severity = "high" THEN HighPenalty
    ELSE IF severity = "medium" THEN MediumPenalty ELSE LowPenalty

\* displayAccessibilityAnalysis: score
accessibilityScore(issues) ==
    FullScore - SumSeq([i \in 1..Len(issues) |-> penalty(issues[i].severity)])

\* riskLevelOf with the thresholds compared by <= instead of <
riskLevelOfInclusive(score) ==
    IF score <= HighRiskBelow THEN "High Risk"
    ELSE IF score <= MediumRiskBelow THEN "Medium Risk" ELSE "Low Risk"

\* displayAccessibilityAnalysis: risk level
riskLevelOf(score) ==
    IF score < HighRiskBelow THEN "High Risk"
    ELSE IF score < MediumRiskBelow THEN "Medium Risk" ELSE "Low Risk"

HasType(issues, type) == \E i \in 1..Len(issues) : issues[i].type = type

\* displayAccessibilityAnalysis: the recommendation paragraph, rendered only
\* when the issue list is not empty
recommendationOf(issues) ==
    IF Len(issues) = 0 THEN "none"
    ELSE IF HasType(issues, "Sentence Complexity") THEN "vision mode"
    ELSE IF HasType(issues, "Document Structure") THEN "sentence navigation"
    ELSE IF HasType(issues, "Text Density") THEN "chunked audio"
    ELSE "well-structured"

\* displayAccessibilityAnalysis: what analysisResults shows
displayAccessibilityAnalysis(issues) ==
    [ score |-> accessibilityScore(issues),
      riskLevel |-> riskLevelOf(accessibilityScore(issues)),
      recommendation |-> recommendationOf(issues) ]

(***************************************************************************)
(* Voice selection                                                         *)
(***************************************************************************)
\* a SpeechSynthesisVoice: its name as the sequence of its words, its lang as
\* a text, its localService flag
Voice(name, lang, localService) ==
    [name |-> name, lang |-> lang, localService |-> localService]

\* voice.name.includes(keyword), for a name given by its words
includes(name, keyword) == \E i \in 1..Len(name) : name[i] = keyword

\* voice.lang.startsWith('en')
startsWithEn(lang) == StartsWithAt(lang, 1, <<"e", "n">>)

\* the predicate of the first voices.find(...)
isPremiumOrLocalEnglish(voice) ==
    \/ includes(voice.name, "Natural")
    \/ includes(voice.name, "Enhanced")
    \/ includes(voice.name, "Premium")
    \/ includes(voice.name, "Neural")
    \/ (startsWithEn(voice.lang) /\ voice.localService)

\* the predicate of the second voices.find(...)
isEnglish(voice) == startsWithEn(voice.lang)

\* Array.prototype.find, given for each position whether its element
\* satisfies the predicate: the position (from 1) of the first element that
\* does, or 0 (undefined) when there is none
find(hits) ==
    IF \A i \in 1..Len(hits) : ~hits[i] THEN 0
    ELSE CHOOSE i \in 1..Len(hits) : hits[i] /\ \A j \in 1..(i-1) : ~hits[j]

\* voices.find(...) || voices.find(...) || voices[0]: the position of the
\* preferred voice, 0 when there is none (voices[0] of an empty list)
preferredVoice(vs) ==
    LET first == find([i \in 1..Len(vs) |-> isPremiumOrLocalEnglish(vs[i])])
        second == find([i \in 1..Len(vs) |-> isEnglish(vs[i])])
    IN  IF first # 0 THEN first
        ELSE IF second # 0 THEN second
        ELSE IF Len(vs) > 0 THEN 1 ELSE 0

(***************************************************************************)
(* State of the reader, of the speech engine and of the timers             *)
(***************************************************************************)
VARIABLES
    currentText,          \* this.currentText
    sentences,            \* this.sentences
    currentSentence,      \* this.currentSentence
    isPlaying,            \* this.isPlaying
    utterance,            \* this.utterance is not null
    speed,                \* this.speedSlider.value
    accessibilityIssues,  \* this.accessibilityIssues
    analysisResults,      \* what this.analysisResults shows
    highlighted,          \* the index last given to highlightSentence
    currentSentenceSpan,  \* the progress display, current sentence
    totalSentencesSpan,   \* the progress display, number of sentences
    announcement,         \* the last message given to announceToScreenReader
    consoleError,         \* the error of the event last logged by console.error
    speechQueue,          \* speechSynthesis: utterances spoken or waiting
    cancelled,            \* sentence indices of the cancelled utterances whose
                          \* event is still to come
    timers,               \* pending setTimeout(() => readCurrentSentence(), 200)
    voices,               \* what speechSynthesis.getVoices() returns
    accessibilityMode,    \* this.accessibilityMode
    storedSettings,       \* localStorage item 'smartDocumentReader'
    settingsLoaded,       \* loadSettings has run (the constructor is done)
    unit,                 \* a text node given to the segmentation
    unitSentences,        \* the sentences extracted from it
    extracted             \* the segmentation of unit has run

vars == << currentText, sentences, currentSentence, isPlaying, utterance, speed,
           accessibilityIssues, analysisResults, highlighted,
           currentSentenceSpan, totalSentencesSpan, announcement, consoleError,
           speechQueue, cancelled, timers, voices, accessibilityMode,
           storedSettings, settingsLoaded, unit, unitSentences, extracted >>

\* no sentence carries the class current-sentence
NoHighlight == -1

\* bounds of the model
MaxSentences == 3
MaxTimers == 2
MaxUtterances == 2

\* positions of the speed slider
Speeds == {1, 2}

\* the reader as one record, so that the methods compose as in the source
This ==
    [ currentText |-> currentText, sentences |-> sentences,
      currentSentence |-> currentSentence, isPlaying |-> isPlaying,
      utterance |-> utterance, speed |-> speed,
      accessibilityIssues |-> accessibilityIssues,
      analysisResults |-> analysisResults, highlighted |-> highlighted,
      currentSentenceSpan |-> currentSentenceSpan,
      totalSentencesSpan |-> totalSentencesSpan,
      announcement |-> announcement, consoleError |-> consoleError,
      speechQueue |-> speechQueue, cancelled |-> cancelled, timers |-> timers,
      voices |-> voices, accessibilityMode |-> accessibilityMode,
      storedSettings |-> storedSettings ]

Commit(t) ==
    /\ currentText' = t.currentText
    /\ sentences' = t.sentences
    /\ currentSentence' = t.currentSentence
    /\ isPlaying' = t.isPlaying
    /\ utterance' = t.utterance
    /\ speed' = t.speed
    /\ accessibilityIssues' = t.accessibilityIssues
    /\ analysisResults' = t.analysisResults
    /\ highlighted' = t.highlighted
    /\ currentSentenceSpan' = t.currentSentenceSpan
    /\ totalSentencesSpan' = t.totalSentencesSpan
    /\ announcement' = t.announcement
    /\ consoleError' = t.consoleError
    /\ speechQueue' = t.speechQueue
    /\ cancelled' = t.cancelled
    /\ timers' = t.timers
    /\ voices' = t.voices
    /\ accessibilityMode' = t.accessibilityMode
    /\ storedSettings' = t.storedSettings

\* the model keeps at most MaxTimers timers pending and at most MaxUtterances
\* utterances whose end or error event is still to come
WithinBounds(t) ==
    /\ t.timers <= MaxTimers
    /\ Len(t.speechQueue) + Len(t.cancelled) <= MaxUtterances

Step(t) ==
    /\ WithinBounds(t)
    /\ Commit(t)
    /\ UNCHANGED <<settingsLoaded, unit, unitSentences, extracted>>

(***************************************************************************)
(* Methods of SmartDocumentReader                                          *)
(***************************************************************************)
announceToScreenReader(t, message) == [t EXCEPT !.announcement = message]

updateProgress(t) == [t EXCEPT !.currentSentenceSpan = t.currentSentence + 1]

\* highlightSentence that marks no sentence
highlightSentenceMissing(t, index) == t

highlightSentence(t, index) == [t EXCEPT !.highlighted = index]

\* setTimeout(() => this.readCurrentSentence(), 200)
setTimeout(t) == [t EXCEPT !.timers = @ + 1]

\* speechSynthesis.cancel(): the queue is emptied; every utterance removed
\* still gets an end or an error event
cancel(t) ==
    [t EXCEPT !.speechQueue = <<>>,
              !.cancelled = t.cancelled \o
                  [i \in 1..Len(t.speechQueue) |-> t.speechQueue[i].index]]

\* speechSynthesis.speak(utterance)
speak(t, u) == [t EXCEPT !.speechQueue = Append(@, u)]

\* pauseReading that leaves the utterance at the engine
pauseReadingNoCancel(t) == [t EXCEPT !.isPlaying = FALSE]

pauseReading(t) ==
    LET p == [t EXCEPT !.isPlaying = FALSE]
    IN  IF p.utterance THEN cancel(p) ELSE p

readCurrentSentence(t) ==
    IF ~t.isPlaying \/ t.currentSentence >= Len(t.sentences)
    THEN pauseReading(t)
    ELSE LET h == highlightSentence(t, t.currentSentence)
             u == [index |-> h.currentSentence, rate |-> h.speed,
                   voice |-> preferredVoice(h.voices)]
         IN  updateProgress(speak([h EXCEPT !.utterance = TRUE], u))

\* utterance.onend that schedules no reading of the next sentence
onendNoTimer(t) ==
    LET a == updateProgress([t EXCEPT !.currentSentence = @ + 1])
    IN  IF a.currentSentence < Len(a.sentences) /\ a.isPlaying
        THEN a
        ELSE announceToScreenReader(pauseReading(a), "Document reading complete.")

\* utterance.onend
onend(t) ==
    LET a == updateProgress([t EXCEPT !.currentSentence = @ + 1])
    IN  IF a.currentSentence < Len(a.sentences) /\ a.isPlaying
        THEN setTimeout(a)
        ELSE announceToScreenReader(pauseReading(a), "Document reading complete.")

\* utterance.onerror that logs the error and goes on
onerrorLogOnly(t, error) == [t EXCEPT !.consoleError = error]

\* utterance.onerror, for an event whose error field is `error`
onerror(t, error) == pauseReading([t EXCEPT !.consoleError = error])

\* startReading without the test for an empty document
startReadingUnguarded(t) == readCurrentSentence([t EXCEPT !.isPlaying = TRUE])

startReading(t) ==
    IF Len(t.sentences) = 0
    THEN announceToScreenReader(t, "No document loaded.")
    ELSE readCurrentSentence([t EXCEPT !.isPlaying = TRUE])

togglePlayback(t) == IF t.isPlaying THEN pauseReading(t) ELSE startReading(t)

\* the 'input' event of the slider: the slider holds the new value already
updateSpeed(t) ==
    IF t.utterance /\ t.isPlaying THEN setTimeout(cancel(t)) ELSE t

resetPlayback(t) ==
    LET a == updateProgress(pauseReading([t EXCEPT !.currentSentence = 0]))
    IN  [a EXCEPT !.highlighted = NoHighlight]

\* handleKeyboard with Ctrl or Meta held
handleKeyboard(t, key) ==
    CASE key = " " -> togglePlayback(t)
      [] key = "ArrowRight" ->
            IF t.currentSentence < Len(t.sentences) - 1
            THEN LET a == [t EXCEPT !.currentSentence = @ + 1]
                 IN  IF a.isPlaying THEN setTimeout(cancel(a)) ELSE a
            ELSE t
      [] key = "ArrowLeft" ->
            IF t.currentSentence > 0
            THEN LET a == [t EXCEPT !.currentSentence = @ - 1]
                 IN  IF a.isPlaying THEN setTimeout(cancel(a)) ELSE a
            ELSE t
      [] OTHER -> t

displayDocument(t) ==
    updateProgress([t EXCEPT !.totalSentencesSpan = Len(t.sentences),
                             !.highlighted = NoHighlight])

processDocument(t, text) ==
    resetPlayback(displayDocument(
        [t EXCEPT !.currentText = text, !.sentences = documentSentences(text)]))

analyzeAccessibility(t, text) ==
    LET issues == analyzeIssues(t.accessibilityIssues, text, t.sentences)
    IN  [t EXCEPT !.accessibilityIssues = issues,
                  !.analysisResults = displayAccessibilityAnalysis(issues)]

\* handleFileUpload for a text or PDF file whose extracted text is `text`
handleFileUpload(t, text) ==
    announceToScreenReader(analyzeAccessibility(processDocument(t, text), text),
                           "Document loaded")

\* localStorage.getItem(...) when nothing is stored (null)
NoItem == <<>>

\* JSON.stringify of the settings object, as the stored item
stringify(settings) ==
    << [ accessibilityMode |-> IF settings.accessibilityMode THEN "true"
                               ELSE "false",
         speed |-> settings.speed ] >>

\* JSON.parse of a stored item
parse(item) ==
    [ accessibilityMode |-> item[1].accessibilityMode = "true",
      speed |-> item[1].speed ]

saveSettings(t) ==
    [t EXCEPT !.storedSettings =
        stringify([accessibilityMode |-> t.accessibilityMode, speed |-> t.speed])]

toggleAccessibilityMode(t) ==
    LET a == saveSettings([t EXCEPT !.accessibilityMode = ~t.accessibilityMode])
    IN  announceToScreenReader(a,
            IF a.accessibilityMode THEN "Accessibility mode activated"
            ELSE "Normal mode activated")

\* loadSettings: every stored speed is a slider position, which is truthy
loadSettings(t) ==
    IF t.storedSettings = NoItem THEN t
    ELSE LET parsed == parse(t.storedSettings)
             a == IF parsed.accessibilityMode THEN toggleAccessibilityMode(t)
                  ELSE t
         IN  [a EXCEPT !.speed = parsed.speed]

(***************************************************************************)
(* Inputs                                                                  *)
(***************************************************************************)
\* a document of n one-word sentences on one line: "a. a. a."
RECURSIVE SentencesDoc(_)
SentencesDoc(n) ==
    IF n = 0 THEN <<>>
    ELSE IF n = 1 THEN <<"a", ".">>
    ELSE SentencesDoc(n - 1) \o <<" ", "a", ".">>

SampleDocs == {SentencesDoc(n) : n \in 0..MaxSentences}

Keys == {" ", "ArrowRight", "ArrowLeft"}

EnUS == <<"e", "n", "-", "U", "S">>
FrFR == <<"f", "r", "-", "F", "R">>

\* the voices installed where the reader runs
InstalledVoices == << Voice(<<"Samantha">>, EnUS, TRUE) >>

(***************************************************************************)
(* Actions: user events, timers, speech engine events                      *)
(***************************************************************************)
UploadDocument == \E text \in SampleDocs : Step(handleFileUpload(This, text))

ClickPlay == Step(togglePlayback(This))

KeyDown == \E key \in Keys : Step(handleKeyboard(This, key))

MoveSlider ==
    \E v \in Speeds \ {speed} : Step(updateSpeed([This EXCEPT !.speed = v]))

TimerFires ==
    /\ timers > 0
    /\ Step(readCurrentSentence([This EXCEPT !.timers = @ - 1]))

\* the utterance being spoken completes
UtteranceEnd ==
    /\ speechQueue # <<>>
    /\ Step(onend([This EXCEPT !.speechQueue = Tail(@)]))

\* the engine fails on the utterance being spoken
UtteranceError ==
    /\ speechQueue # <<>>
    /\ Step(onerror([This EXCEPT !.speechQueue = Tail(@)], "synthesis-failed"))

\* the event of a cancelled utterance arrives: 'end' (the utterance had
\* completed when cancel() was called, or the browser ends what it cancels)
CancelledEnd ==
    /\ cancelled # <<>>
    /\ Step(onend([This EXCEPT !.cancelled = Tail(@)]))

\* or 'error' (interrupted, canceled)
CancelledError ==
    /\ cancelled # <<>>
    /\ Step(onerror([This EXCEPT !.cancelled = Tail(@)], "interrupted"))

\* the reader after construction, before any document
Constructed ==
    /\ currentText = <<>>
    /\ sentences = <<>>
    /\ currentSentence = 0
    /\ isPlaying = FALSE
    /\ utterance = FALSE
    /\ speed \in Speeds
    /\ accessibilityIssues = <<>>
    /\ analysisResults = [score |-> FullScore, riskLevel |-> "Low Risk",
                          recommendation |-> "none"]
    /\ highlighted = NoHighlight
    /\ currentSentenceSpan = 0
    /\ totalSentencesSpan = 0
    /\ announcement = "Smart Document Reader loaded"
    /\ consoleError = "none"
    /\ speechQueue = <<>>
    /\ cancelled = <<>>
    /\ timers = 0
    /\ accessibilityMode = TRUE

\* nothing stored by an earlier session: loadSettings has changed nothing
FreshProfile == storedSettings = NoItem /\ settingsLoaded = TRUE

Init ==
    /\ Constructed
    /\ voices = InstalledVoices
    /\ FreshProfile
    /\ unit = <<>>
    /\ unitSentences = <<>>
    /\ extracted = FALSE

Next ==
    \/ UploadDocument
    \/ ClickPlay
    \/ KeyDown
    \/ MoveSlider
    \/ TimerFires
    \/ UtteranceEnd
    \/ UtteranceError
    \/ CancelledEnd
    \/ CancelledError

Spec == Init /\ [][Next]_vars

(***************************************************************************)
(* Segmentation of one text node, over every short text                    *)
(***************************************************************************)
MaxUnitLen == 3

UnitAlphabet == {"a", ".", "?", " "}

RECURSIVE TextsOver(_, _)
TextsOver(alphabet, n) ==
    IF n = 0 THEN {<<>>}
    ELSE LET shorter == TextsOver(alphabet, n - 1)
         IN  shorter \cup {Append(s, c) : s \in {x \in shorter : Len(x) = n - 1},
                                          c \in alphabet}

Units == TextsOver(UnitAlphabet, MaxUnitLen)

ExtractUnit ==
    /\ ~extracted
    /\ unitSentences' = extractSentencesFromTextNode(unit)
    /\ extracted' = TRUE
    /\ UNCHANGED << currentText, sentences, currentSentence, isPlaying,
                    utterance, speed, accessibilityIssues, analysisResults,
                    highlighted, currentSentenceSpan, totalSentencesSpan,
                    announcement, consoleError, speechQueue, cancelled, timers,
                    voices, accessibilityMode, storedSettings, settingsLoaded,
                    unit >>

InitSeg ==
    /\ Constructed
    /\ voices = InstalledVoices
    /\ FreshProfile
    /\ unit \in Units
    /\ unitSentences = <<>>
    /\ extracted = FALSE

NextSeg == ExtractUnit

SpecSeg == InitSeg /\ [][NextSeg]_vars

(***************************************************************************)
(* Analysis of uploaded documents: every short text, and documents built   *)
(* around the thresholds of the three signals                              *)
(***************************************************************************)
MaxTextLen == 3

TextAlphabet == {"a", ".", " ", NL}

RECURSIVE Repeat(_, _, _)
\* n copies of the text `piece`, joined by the text `sep`
Repeat(piece, n, sep) ==
    IF n = 0 THEN <<>>
    ELSE IF n = 1 THEN piece
    ELSE Repeat(piece, n - 1, sep) \o sep \o piece

\* a sentence of w words of l letters, and a paragraph of k such sentences
SentenceOf(w, l) == Repeat(Repeat(<<"a">>, l, <<>>), w, <<" ">>) \o <<".">>
ParagraphOf(k, w, l) == Repeat(SentenceOf(w, l), k, <<" ">>)

HeadingLine == <<"P", "a", "r", "t", " ", "a", ".", NL>>

\* p paragraphs of k sentences of w words of l letters, under a heading line
\* or not
BuiltDoc(heading, p, k, w, l) ==
    (IF heading THEN HeadingLine ELSE <<>>)
        \o Repeat(ParagraphOf(k, w, l), p, <<NL, NL>>)

BuiltDocs ==
    { BuiltDoc(heading, p, k, w, l) :
        heading \in BOOLEAN, p \in {1, 2},
        k \in {StructureLimit, StructureLimit + 1},
        w \in {ComplexityLimit, ComplexityLimit + 1},
        l \in {1, 2} }

AnalysisDocs == TextsOver(TextAlphabet, MaxTextLen) \cup BuiltDocs

AnalyzeUpload == \E text \in AnalysisDocs : Step(handleFileUpload(This, text))

\* the slider plays no part in the analysis: it stays at its first position
InitAnalysis == Init /\ speed = 1

NextAnalysis == AnalyzeUpload

SpecAnalysis == InitAnalysis /\ [][NextAnalysis]_vars

(***************************************************************************)
(* Voice selection, over every short list of voices                        *)
(***************************************************************************)
MaxVoices == 2

VoiceNames == { <<"Samantha">>, <<"Google", "Natural">>, <<"Ava", "Premium">> }

Voices ==
    { Voice(name, lang, localService) :
        name \in VoiceNames, lang \in {EnUS, FrFR}, localService \in BOOLEAN }

RECURSIVE ListsOver(_, _)
\* the lists of at most n elements of the set
ListsOver(set, n) ==
    IF n = 0 THEN {<<>>}
    ELSE LET shorter == ListsOver(set, n - 1)
         IN  shorter \cup {Append(l, x) : l \in {y \in shorter : Len(y) = n - 1},
                                          x \in set}

VoiceLists == ListsOver(Voices, MaxVoices)

InitVoice ==
    /\ Constructed
    /\ voices \in VoiceLists
    /\ FreshProfile
    /\ unit = <<>>
    /\ unitSentences = <<>>
    /\ extracted = FALSE

\* a document is loaded and played, paused and played again
NextVoice == UploadDocument \/ ClickPlay

SpecVoice == InitVoice /\ [][NextVoice]_vars

(***************************************************************************)
(* Settings: the reader starts on what an earlier session stored, and the  *)
(* user toggles the accessibility mode besides using the reader            *)
(***************************************************************************)
\* what an earlier session can have stored
StoredItems ==
    { stringify([accessibilityMode |-> m, speed |-> s]) :
        m \in BOOLEAN, s \in Speeds }

\* the last call of the constructor
LoadSettings ==
    /\ ~settingsLoaded
    /\ Commit(loadSettings(This))
    /\ settingsLoaded' = TRUE
    /\ UNCHANGED <<unit, unitSentences, extracted>>

ClickAccessibility == Step(toggleAccessibilityMode(This))

\* the constructor has reached its call of loadSettings
InitSettings ==
    /\ Constructed
    /\ voices = InstalledVoices
    /\ storedSettings \in StoredItems \cup {NoItem}
    /\ settingsLoaded = FALSE
    /\ unit = <<>>
    /\ unitSentences = <<>>
    /\ extracted = FALSE

NextSettings ==
    \/ LoadSettings
    \/ settingsLoaded /\ ClickAccessibility
    \/ settingsLoaded /\ Next

SpecSettings == InitSettings /\ [][NextSettings]_vars

(***************************************************************************)
(* Reading a document to its end: the user loads documents, presses Play   *)
(* once and leaves the reader alone; the engine completes every utterance  *)
(* and every timer fires                                                   *)
(***************************************************************************)
MaxReadSentences == 8

ReadDocs == {SentencesDoc(n) : n \in 0..MaxReadSentences}

\* a document is loaded before anything has been read
LoadBeforeReading ==
    /\ ~utterance
    /\ \E text \in ReadDocs : Step(handleFileUpload(This, text))

\* Play is pressed, nothing having been read yet
PressPlayOnce == ~utterance /\ ClickPlay

NextRead ==
    \/ LoadBeforeReading
    \/ PressPlayOnce
    \/ TimerFires
    \/ UtteranceEnd

SpecRead ==
    /\ Init
    /\ [][NextRead]_vars
    /\ WF_vars(TimerFires)
    /\ WF_vars(UtteranceEnd)

(***************************************************************************)
(* Properties                                                              *)
(***************************************************************************)
\* a step that hands a new utterance to the speech engine
Speaks == Len(speechQueue') > Len(speechQueue)

\* the utterance handed over by such a step
Spoken == speechQueue'[Len(speechQueue')]

\* startReading called by the play button or by Ctrl+Space
StartCalled == ~isPlaying /\ Step(startReading(This))

\* C1: in every reachable state 0 <= currentSentence <= number of sentences,
\* and currentSentence equals the number of sentences only when not playing.
C1_IndexBound ==
    /\ 0 <= currentSentence
    /\ currentSentence <= Len(sentences)
    /\ currentSentence = Len(sentences) => ~isPlaying

\* C2: the end or error event of a cancelled utterance whose sentence index
\* is no longer the current one changes neither currentSentence, nor the
\* playing status, nor the requests issued or scheduled.
C2_StaleEventDiscarded ==
    [][ ( /\ cancelled # <<>>
          /\ Head(cancelled) # currentSentence
          /\ CancelledEnd \/ CancelledError )
        => UNCHANGED <<currentSentence, isPlaying, speechQueue, timers>> ]_vars

\* C3: at most one speech request is outstanding at the speech engine.
C3_OneOutstanding == Len(speechQueue) <= 1

\* C4: start() when playback is finished (currentSentence equals the number
\* of sentences, which is positive) sets currentSentence to 0, ends playing
\* and issues a speech request for sentence 0.  Stated of the outcome of
\* startReading in every reachable state.
C4_RestartFromFinished ==
    ( /\ ~isPlaying
      /\ Len(sentences) > 0
      /\ currentSentence = Len(sentences) )
    => LET after == startReading(This)
       IN  /\ after.currentSentence = 0
           /\ after.isPlaying
           /\ Len(after.speechQueue) = Len(speechQueue) + 1
           /\ after.speechQueue[Len(after.speechQueue)].index = 0

\* C5: an error reported for the utterance being spoken while playing leaves
\* the reader paused at the same sentence with the error logged and nothing
\* left at the engine; and from a paused state no step issues a speech
\* request or resumes playing unless it is a call of start().
C5_ErrorPausesNoRetry ==
    /\ [][ (isPlaying /\ UtteranceError)
           => ( /\ ~isPlaying'
                /\ currentSentence' = currentSentence
                /\ consoleError' = "synthesis-failed"
                /\ speechQueue' = <<>> ) ]_vars
    /\ [][ (~isPlaying /\ (Speaks \/ isPlaying')) => StartCalled ]_vars

\* the reader paused by a speech error before the end of the document, with a
\* settle-delay timer still pending
C5_Witness ==
    /\ consoleError = "synthesis-failed"
    /\ ~isPlaying
    /\ currentSentence < Len(sentences)
    /\ timers > 0
    /\ speechQueue = <<>>

\* C6: every step that issues a speech request for sentence i leaves sentence
\* i highlighted, and i is the current sentence; and while a request is
\* outstanding the highlighted index is never more than one behind the index
\* of any outstanding request.
C6_HighlightWithSpeech ==
    /\ [][ Speaks => ( /\ Spoken.index = currentSentence'
                       /\ highlighted' = Spoken.index ) ]_vars
    /\ [] ( \A k \in 1..Len(speechQueue) :
                highlighted >= speechQueue[k].index - 1 )

\* two requests outstanding, the later one for a later sentence, which is the
\* one highlighted
C6_Witness ==
    /\ Len(speechQueue) = 2
    /\ speechQueue[1].index < speechQueue[2].index
    /\ highlighted = speechQueue[2].index

\* the non-whitespace characters of a text, in order
NonSpace(s) == SelectSeq(s, LAMBDA c : ~IsSpace(c))

\* C7: for every non-empty text node, the sentences extracted hold every
\* non-whitespace character of the node exactly once and in the original
\* order.
C7_TotalCoverage ==
    (extracted /\ unit # <<>>)
        => NonSpace(ConcatAll(unitSentences)) = NonSpace(unit)

\* an analysis has run on the current text
Analyzed == announcement = "Document loaded"

CountSeverity(issues, severity) ==
    Cardinality({i \in 1..Len(issues) : issues[i].severity = severity})

CountType(issues, type) ==
    Cardinality({i \in 1..Len(issues) : issues[i].type = type})

\* C8: the score shown is 100 - (15 per high, 8 per medium, 3 per low issue),
\* lies in 0..100, would not rise with one more issue of any severity, and
\* the risk level is Low iff score >= 85, Medium iff 70 <= score <= 84, High
\* iff score < 70; Complexity plus Structure gives 77 and Medium.
C8_ScoreAndRisk ==
    LET issues == accessibilityIssues
        score == analysisResults.score
        risk == analysisResults.riskLevel
    IN  /\ score = 100 - ( 15 * CountSeverity(issues, "high")
                           + 8 * CountSeverity(issues, "medium")
                           + 3 * CountSeverity(issues, "low") )
        /\ 0 <= score /\ score <= 100
        /\ \A severity \in {"low", "medium", "high"} :
              accessibilityScore(Append(issues, Issue("Added", severity))) <= score
        /\ risk = "Low Risk" <=> score >= 85
        /\ risk = "Medium Risk" <=> (70 <= score /\ score <= 84)
        /\ risk = "High Risk" <=> score < 70
        /\ ( /\ Len(issues) = 2
             /\ HasType(issues, "Sentence Complexity")
             /\ HasType(issues, "Document Structure") )
           => (score = 77 /\ risk = "Medium Risk")

\* a report with a Complexity and a Structure issue only
C8_Witness ==
    /\ Analyzed
    /\ Len(accessibilityIssues) = 2
    /\ HasType(accessibilityIssues, "Sentence Complexity")
    /\ HasType(accessibilityIssues, "Document Structure")
    /\ analysisResults.score = 77

\* C9: a raw text without non-empty paragraph (empty or whitespace only) gets
\* no Text Density issue; the empty text gives no sentence, no issue, score
\* 100 and Low Risk.
C9_NoDensityWithoutParagraph ==
    (Analyzed /\ IsBlank(currentText))
        => /\ ~HasType(accessibilityIssues, "Text Density")
           /\ currentText = <<>>
                => /\ sentences = <<>>
                   /\ accessibilityIssues = <<>>
                   /\ analysisResults.score = 100
                   /\ analysisResults.riskLevel = "Low Risk"

FirstOf(vs, class) ==
    IF \E i \in 1..Len(vs) : vs[i] \in class
    THEN CHOOSE i \in 1..Len(vs) :
            vs[i] \in class /\ \A j \in 1..(i-1) : vs[j] \notin class
    ELSE 0

HasKeyword(v) ==
    \E k \in {"Natural", "Enhanced", "Premium", "Neural"} : includes(v.name, k)

\* C11: the voice of every speech request is the first candidate of the
\* highest-ranked non-empty class, the classes ranked strictly: (1) keyword in
\* the name, (2) English and local, (3) English, (4) any; no voice only for
\* the empty list.
C11_StrictRanking ==
    LET Any == {voices[i] : i \in 1..Len(voices)}
        Keyword == {v \in Any : HasKeyword(v)}
        EnglishLocal == {v \in Any : startsWithEn(v.lang) /\ v.localService}
        English == {v \in Any : startsWithEn(v.lang)}
        ranked == IF FirstOf(voices, Keyword) # 0
                      THEN FirstOf(voices, Keyword)
                  ELSE IF FirstOf(voices, EnglishLocal) # 0
                      THEN FirstOf(voices, EnglishLocal)
                  ELSE IF FirstOf(voices, English) # 0
                      THEN FirstOf(voices, English)
                  ELSE FirstOf(voices, Any)
    IN  \A k \in 1..Len(speechQueue) :
            /\ speechQueue[k].voice = ranked
            /\ speechQueue[k].voice = 0 <=> voices = <<>>

\* C12: loading a stored record {accessibilityMode: m, speed: s} at startup
\* leaves the accessibility mode m and the speed s in force, and the stored
\* record as it was.
C12_SettingsRoundTrip ==
    [][ (LoadSettings /\ storedSettings # NoItem)
        => /\ accessibilityMode' = parse(storedSettings).accessibilityMode
           /\ speed' = parse(storedSettings).speed
           /\ storedSettings' = storedSettings ]_vars

\* C13: after a click on the accessibility button and after a move of the
\* speed slider, the stored record is the current accessibility mode and
\* speed.
C13_SavedOnChange ==
    [][ (settingsLoaded /\ (ClickAccessibility \/ MoveSlider))
        => storedSettings' = stringify([accessibilityMode |-> accessibilityMode',
                                        speed |-> speed']) ]_vars

\* the end or error event of a cancelled utterance is delivered
CancelledEvent == CancelledEnd \/ CancelledError

\* C14: while the reader is paused before the end of the document, whatever
\* event the engine delivers for a cancelled utterance leaves it paused at
\* the same sentence, and start() then issues the speech request for that
\* sentence: pause followed by start neither skips nor repeats a sentence.
C14_ResumeSameSentence ==
    /\ [][ ( /\ ~isPlaying
             /\ currentSentence < Len(sentences)
             /\ CancelledEvent )
           => (currentSentence' = currentSentence /\ ~isPlaying') ]_vars
    /\ [][ ( /\ currentSentence < Len(sentences)
             /\ StartCalled )
           => (Speaks /\ Spoken.index = currentSentence) ]_vars

\* this 'end' event, delivered for the utterance in front of the queue or for
\* a cancelled one, makes onend announce the completion
EndAnnounces(t) ==
    onend([t EXCEPT !.announcement = "none"]).announcement
        = "Document reading complete."

\* C15: "Document reading complete." is announced only by a step taken while
\* playing that brings currentSentence to the number of sentences; it is
\* never announced with currentSentence below the number of sentences.
C15_CompletionOnlyAtEnd ==
    [][ ( \/ UtteranceEnd /\ EndAnnounces([This EXCEPT !.speechQueue = Tail(@)])
          \/ CancelledEnd /\ EndAnnounces([This EXCEPT !.cancelled = Tail(@)]) )
        => (isPlaying /\ currentSentence' = Len(sentences')) ]_vars

\* the speech requests that can be the next one issued after a handler has
\* left the reader as t with a settle-delay timer scheduled: the timer fires
\* at once, or after the engine has delivered the end or the error event of a
\* cancelled utterance
NextRequests(t) ==
    LET reactions ==
            {t} \cup
            ( IF t.cancelled = <<>> THEN {}
              ELSE { onend([t EXCEPT !.cancelled = Tail(@)]),
                     onerror([t EXCEPT !.cancelled = Tail(@)], "interrupted") } )
        fired == { readCurrentSentence([e EXCEPT !.timers = @ - 1]) :
                        e \in {r \in reactions : r.timers > 0} }
    IN  { r.speechQueue[Len(r.speechQueue)] : r \in {f \in fired : f.speechQueue # <<>>} }

\* cancel() has been called on the way from the reader as it is to t
CancelIssued(t) ==
    /\ t.speechQueue = <<>>
    /\ t.cancelled = cancelled \o [i \in 1..Len(speechQueue) |-> speechQueue[i].index]

\* C16: Ctrl+ArrowRight adds 1 to currentSentence iff currentSentence <
\* length - 1, Ctrl+ArrowLeft subtracts 1 iff currentSentence > 0; otherwise
\* nothing changes.  Not playing, only currentSentence changes; playing,
\* cancel is called and the next speech request is for the new index.
C16_SeekFrame ==
    \A key \in {"ArrowRight", "ArrowLeft"} :
        LET delta == IF key = "ArrowRight" THEN 1 ELSE -1
            moves == IF key = "ArrowRight"
                     THEN currentSentence < Len(sentences) - 1
                     ELSE currentSentence > 0
            after == handleKeyboard(This, key)
        IN  /\ moves => after.currentSentence = currentSentence + delta
            /\ ~moves => after = This
            /\ (moves /\ ~isPlaying)
                  => after = [This EXCEPT !.currentSentence = currentSentence + delta]
            /\ (moves /\ isPlaying)
                  => /\ CancelIssued(after)
                     /\ after.timers = timers + 1
                     /\ \A u \in NextRequests(after) :
                            u.index = currentSentence + delta

\* C17: a move of the speed slider changes neither currentSentence nor the
\* playing status; playing, cancel is called and the next speech request is
\* for the same sentence at the new rate; not playing, neither cancel nor
\* speak is called and the next start() speaks at the new rate.
C17_RateFrame ==
    \A v \in Speeds \ {speed} :
        LET after == updateSpeed([This EXCEPT !.speed = v])
            started == startReading(after)
        IN  /\ after.currentSentence = currentSentence
            /\ after.isPlaying = isPlaying
            /\ after.speed = v
            /\ isPlaying
                  => /\ CancelIssued(after)
                     /\ after.timers = timers + 1
                     /\ \A u \in NextRequests(after) :
                            u.index = currentSentence /\ u.rate = v
            /\ ~isPlaying
                  => /\ after = [This EXCEPT !.speed = v]
                     /\ Len(started.speechQueue) > Len(speechQueue)
                           => started.speechQueue[Len(started.speechQueue)].rate = v

\* pauseReading called by the play button or by Ctrl+Space
PauseCalled == isPlaying /\ Step(togglePlayback(This))

\* C18: pause() while playing leaves the reader paused with cancel called on
\* what the engine holds; while it is paused nothing is outstanding at the
\* engine, a settle-delay timer that fires then issues no speech request,
\* and only start() issues one.
C18_PauseSilences ==
    /\ [][ PauseCalled => (~isPlaying' /\ CancelIssued(This')) ]_vars
    /\ [] (~isPlaying => speechQueue = <<>>)
    /\ [][ (~isPlaying /\ TimerFires)
           => (~isPlaying' /\ speechQueue' = <<>>) ]_vars
    /\ [][ (~isPlaying /\ Speaks) => StartCalled ]_vars

\* paused by the user in the middle of a document, the cancelled utterance's
\* event still to come and a settle-delay timer still pending
C18_Witness ==
    /\ ~isPlaying
    /\ highlighted # NoHighlight
    /\ currentSentence < Len(sentences)
    /\ consoleError = "none"
    /\ announcement = "Document loaded"
    /\ cancelled # <<>>
    /\ timers > 0

\* C19: with no sentence, start() announces "No document loaded." and
\* changes nothing else: the reader stays not playing, currentSentence stays
\* what it is, no speech request is issued and no timer is scheduled.
C19_StartWithoutDocument ==
    [] ( Len(sentences) = 0
         => /\ ~isPlaying
            /\ startReading(This)
                 = [This EXCEPT !.announcement = "No document loaded."]
            /\ togglePlayback(This) = startReading(This) )

\* Play has been pressed with no document loaded
C19_Witness ==
    /\ announcement = "No document loaded."
    /\ sentences = <<>>
    /\ ~isPlaying
    /\ speechQueue = <<>>

\* an event of the engine or of a timer, as opposed to an action of the user
EngineOrTimerEvent ==
    TimerFires \/ UtteranceEnd \/ UtteranceError \/ CancelledEnd \/ CancelledError

\* C20: loading a document leaves currentSentence 0, the reader not playing
\* and cancel called on what the engine holds; and while the reader is not
\* playing at sentence 0, no timer and no event of the engine moves
\* currentSentence: it stays 0 until the user starts or seeks.
C20_ResetOnLoad ==
    /\ [][ UploadDocument
           => ( /\ currentSentence' = 0
                /\ ~isPlaying'
                /\ speechQueue' = <<>> ) ]_vars
    /\ [][ (~isPlaying /\ currentSentence = 0 /\ EngineOrTimerEvent)
           => currentSentence' = 0 ]_vars

\* the text s stands in the text u from position i on
OccursAt(s, u, i) ==
    /\ i >= 1
    /\ i + Len(s) - 1 <= Len(u)
    /\ \A k \in 1..Len(s) : u[i + k - 1] = s[k]

\* C21: every sentence extracted from a unit stands in the unit at a place
\* where it is followed by whitespace or by the end of the unit, and it ends
\* in terminal punctuation unless it ends with the unit: no boundary is put
\* between a punctuation character and a non-whitespace character.
C21_BoundaryBeforeWhitespace ==
    extracted =>
        \A k \in 1..Len(unitSentences) :
            LET s == unitSentences[k]
                u == trim(unit)
            IN  \E i \in 1..Len(u) :
                    /\ OccursAt(s, u, i)
                    /\ \/ i + Len(s) - 1 = Len(u)
                       \/ /\ IsSpace(u[i + Len(s)])
                          /\ IsTerminal(s[Len(s)])

\* the number of maximal runs of terminal punctuation in a text
TerminalRuns(u) ==
    Cardinality({ i \in 1..Len(u) :
                    IsTerminal(u[i]) /\ (i = Len(u) \/ ~IsTerminal(u[i + 1])) })

C23_OneRecommendation ==
    Analyzed =>
        analysisResults.recommendation =
            IF HasType(accessibilityIssues, "Sentence Complexity")
                THEN "vision mode"
            ELSE IF HasType(accessibilityIssues, "Document Structure")
                THEN "sentence navigation"
            ELSE IF HasType(accessibilityIssues, "Text Density")
                THEN "chunked audio"
            ELSE "well-structured"

\* C25: the sentence number shown as current progress never exceeds the
\* total number of sentences shown.
C25_ProgressWithinTotal == currentSentenceSpan <= totalSentencesSpan

\* the reader has read its document to the end
Finished ==
    /\ ~isPlaying
    /\ currentSentence = Len(sentences)
    /\ speechQueue = <<>>
    /\ timers = 0
    /\ announcement = "Document reading complete."

\* C24: once Play has been pressed at sentence 0 of a document of n > 0
\* sentences and the reader is left alone, every utterance completing and
\* every timer firing, the reader eventually is finished with currentSentence
\* = n; a speech request is issued only for the current sentence and with
\* none outstanding, and currentSentence moves only by one, when the request
\* for the current sentence completes: one request per sentence, in order.
C24_ReadsToTheEnd ==
    /\ utterance ~> Finished
    /\ [][ Speaks => ( /\ speechQueue = <<>>
                       /\ Spoken.index = currentSentence
                       /\ currentSentence' = currentSentence ) ]_vars
    /\ [][ (utterance /\ (currentSentence' # currentSentence
                              \/ speechQueue' # speechQueue) /\ ~Speaks)
           => ( /\ speechQueue = <<[index |-> currentSentence, rate |-> speed,
                                     voice |-> preferredVoice(voices)]>>
                /\ speechQueue' = <<>>
                /\ currentSentence' = currentSentence + 1 ) ]_vars
    /\ [] (utterance => Len(speechQueue) + timers <= 1)

\* a document of several sentences read to its end
C24_Witness ==
    /\ Finished
    /\ utterance
    /\ Len(sentences) >= 3
    /\ currentSentenceSpan = Len(sentences) + 1

=============================================================================
